---- MODULE Spec2Model ----
(***************************************************************************)
(* Versioned-document CAS client of github_db.py: gh_get_file, gh_put_file *)
(* and safe_update_json, with the insert / update-by-id / delete-by-id     *)
(* updaters built on it, run by concurrent sessions against one path of    *)
(* the remote content store.                                               *)
(***************************************************************************)
EXTENDS Integers, Sequences, FiniteSets, TLC

\* ---------------------------------------------------------------- bounds
NumSessions == 2      \* concurrent UI sessions (tabs, devices)
MaxCalls    == 2      \* calls of safe_update_json begun in one behaviour
MaxRetries  == 2      \* largest max_retries a call is given
MaxIdArg    == 2      \* ids 1..MaxIdArg are used as update/delete arguments
MaxActs     == 1      \* syncs, additions, quick actions and queue runs in one behaviour
MaxPages    == 1      \* sessions that open the tasks page
PageRetries == 1      \* max_retries of the calls made by the page's handlers
MaxPageCalls == 3     \* calls begun in one behaviour with the page open

Sessions == 1..NumSessions

\* ------------------------------------------------------------ JSON values
\* A record of the collection: its integer id, the caller's fields (tag is
\* the number of the call whose fields it carries, 0 for seeded records)
\* and the status field.
Rec(i, t, s) == [id |-> i, tag |-> t, status |-> s]

\* Python's None / a JSON array, as read by gh_get_file.
NoneObj    == [none |-> TRUE, list |-> <<>>]
ListObj(l) == [none |-> FALSE, list |-> l]

\* `obj or []`, `obj if isinstance(obj, list) else []`
OrEmpty(o) == IF o.none THEN <<>> ELSE o.list

SeqMax(S) == CHOOSE m \in S : \A x \in S : x <= m

IdsOf(l) == {l[k].id : k \in 1..Len(l)}

\* Variants of NextId with a slip: the length instead of the largest id,
\* and the largest id without the increment.
NextIdByLen(l) == Len(l) + 1
NextIdNoInc(l) == IF IdsOf(l) = {} THEN 1 ELSE SeqMax(IdsOf(l))

\* new_id = (max(ids) + 1) if ids else 1
NextId(l) == IF IdsOf(l) = {} THEN 1 ELSE SeqMax(IdsOf(l)) + 1

\* --------------------------------------------------------------- updaters
\* The arguments o of a call: for an insert, callerId is the 'id' key the
\* caller put in the dict (0: no such key) and valid is FALSE for fields the
\* updater rejects with ValueError (inserir_habit_log's habit_id); for an
\* update or a delete, id is the id argument and status the patched field.

\* Variant of NewRecord with a slip: reg2.setdefault("id", new_id).
NewRecordKeepsId(o, c, new_id) ==
    Rec(IF o.callerId # 0 THEN o.callerId ELSE new_id, c,
        IF o.status = "absent" THEN "todo" ELSE o.status)

\* reg2 = dict(reg); reg2["id"] = new_id; reg2.setdefault("status", "todo")
NewRecord(o, c, new_id) ==
    Rec(new_id, c, IF o.status = "absent" THEN "todo" ELSE o.status)

InsertUpdater(o, c, ob) ==
    LET l == OrEmpty(ob) IN Append(l, NewRecord(o, c, NextId(l)))

\* Variant of UpdateUpdater with a slip: the id test is missing and the
\* patch goes into every record.
UpdateUpdaterAll(o, ob) ==
    LET l == OrEmpty(ob) IN
    [k \in 1..Len(l) |-> [l[k] EXCEPT !.status = o.status]]

\* for r in obj: if int(r.get("id", -1)) == int(task_id): r.update(patch)
UpdateUpdater(o, ob) ==
    LET l == OrEmpty(ob) IN
    [k \in 1..Len(l) |->
        IF l[k].id = o.id THEN [l[k] EXCEPT !.status = o.status] ELSE l[k]]

\* Variant of DeleteUpdater with a slip: the record at position task_id
\* is removed instead of the records whose id is task_id.
DeleteUpdaterByIndex(o, ob) ==
    LET l == OrEmpty(ob) IN
    IF o.id \in 1..Len(l)
      THEN SubSeq(l, 1, o.id - 1) \o SubSeq(l, o.id + 1, Len(l))
      ELSE l

\* Variant of DeleteUpdater with a slip: the filter keeps the records whose
\* id is above task_id instead of those whose id differs from it.
DeleteUpdaterUpTo(o, ob) ==
    LET l == OrEmpty(ob) IN SelectSeq(l, LAMBDA r : r.id > o.id)

\* [r for r in obj if not (int(r.get("id", -1)) == int(task_id))]
DeleteUpdater(o, ob) ==
    LET l == OrEmpty(ob) IN SelectSeq(l, LAMBDA r : r.id # o.id)

\* A record of the habits collection as inserir_habito writes it, and one
\* of an older layout that carries no unit.
Habit(i, t, n, u) == [id |-> i, tag |-> t, name |-> n, unit |-> u]
LegacyHabit(i, t, n) == [id |-> i, tag |-> t, name |-> n]

\* (s or "").strip() on the names used here
Strip(n) == CASE n = " cha " -> "cha" [] OTHER -> n

\* obj.append({"id": new_id, "name": name.strip(), "unit": unit or "", ...})
InsertHabitoUpdater(o, c, ob) ==
    LET l == OrEmpty(ob) IN Append(l, Habit(NextId(l), c, Strip(o.name), ""))

\* rr = dict(r); if "name" in patch: rr["name"] = patch["name"].strip();
\* rr.setdefault("unit", "")
UpdateHabitoUpdater(o, ob) ==
    LET l == OrEmpty(ob) IN
    [k \in 1..Len(l) |->
        IF l[k].id = o.id
          THEN Habit(l[k].id, l[k].tag, Strip(o.name),
                     IF "unit" \in DOMAIN l[k] THEN l[k].unit ELSE "")
          ELSE l[k]]

\* deletar_tasks_bulk(ids): the records whose id is in ids are filtered out
\* by one updater
BulkDeleteUpdater(o, ob) ==
    LET l == OrEmpty(ob) IN SelectSeq(l, LAMBDA r : r.id \notin o.ids)

\* A record of the habit-check collection as upsert_habit_check creates it.
Check(i, d) ==
    [id |-> i, date |-> d, water_done |-> FALSE, move_done |-> FALSE,
     sleep_done |-> FALSE]

\* found.update(dict(patch))
DictUpdate(r, patch) ==
    [f \in DOMAIN r \cup DOMAIN patch |->
        IF f \in DOMAIN patch THEN patch[f] ELSE r[f]]

\* Variant of UpsertUpdater with a slip: the record of the date is not
\* looked for.
UpsertUpdaterNoFind(o, ob) ==
    LET l == OrEmpty(ob) IN
    Append(l, DictUpdate(Check(NextId(l), o.date), o.patch))

\* found = the first record with that date, else a new record that is
\* appended; found.update(dict(patch))
UpsertUpdater(o, ob) ==
    LET l    == OrEmpty(ob)
        hits == {k \in 1..Len(l) : l[k].date = o.date}
    IN  IF hits = {}
          THEN Append(l, DictUpdate(Check(NextId(l), o.date), o.patch))
          ELSE LET k == CHOOSE x \in hits : \A y \in hits : x <= y
               IN  [l EXCEPT ![k] = DictUpdate(l[k], o.patch)]

\* A record of the meals collection as inserir_meal creates it.
Meal(i, d, m, q) == [id |-> i, date |-> d, meal |-> m, quality |-> q, notes |-> ""]

\* obj.append({"id": new_id, "date": ..., "meal": ..., "quality": ..., "notes": ...})
InsertMealUpdater(o, ob) ==
    LET l == OrEmpty(ob) IN Append(l, Meal(NextId(l), o.date, o.meal, o.quality))

\* r.update(dict(patch)) for the records with that id
UpdateMealUpdater(o, ob) ==
    LET l == OrEmpty(ob) IN
    [k \in 1..Len(l) |->
        IF l[k].id = o.id THEN DictUpdate(l[k], [quality |-> o.quality]) ELSE l[k]]

\* A record of the study topics collection (title is a number, for the
\* sort by order and title).
Topic(i, s, n, t) == [id |-> i, subject_id |-> s, order |-> n, title |-> t, active |-> TRUE]

\* same = the records of the subject; order = max(order of same) + 1, or 1;
\* obj.append(row)
InsertTopicUpdater(o, ob) ==
    LET l    == OrEmpty(ob)
        same == {l[k].order : k \in {j \in 1..Len(l) : l[j].subject_id = o.subject_id}}
    IN  Append(l, Topic(NextId(l), o.subject_id,
                        IF same = {} THEN 1 ELSE SeqMax(same) + 1, o.title))

\* for k, v in patch.items(): r["order"] = int(v), for the records with
\* that id
UpdateTopicUpdater(o, ob) ==
    LET l == OrEmpty(ob) IN
    [k \in 1..Len(l) |-> IF l[k].id = o.id THEN [l[k] EXCEPT !.order = o.order] ELSE l[k]]

\* deletar_estudos_topic: [r for r in obj if r.id != topic_id]
DeleteTopicUpdater(o, ob) ==
    LET l == OrEmpty(ob) IN SelectSeq(l, LAMBDA r : r.id # o.id)

\* upd_topics: [t for t in obj if t.subject_id != subject_id]
DeleteTopicsOfUpdater(o, ob) ==
    LET l == OrEmpty(ob) IN SelectSeq(l, LAMBDA r : r.subject_id # o.subject_id)

\* updater(obj) of call number c with arguments o
Updater(o, c, ob) ==
    CASE o.kind = "insert" -> InsertUpdater(o, c, ob)
      [] o.kind = "update" -> UpdateUpdater(o, ob)
      [] o.kind = "delete" -> DeleteUpdater(o, ob)
      [] o.kind = "insert_habito" -> InsertHabitoUpdater(o, c, ob)
      [] o.kind = "update_habito" -> UpdateHabitoUpdater(o, ob)
      [] o.kind = "bulk" -> BulkDeleteUpdater(o, ob)
      [] o.kind = "upsert" -> UpsertUpdater(o, ob)
      [] o.kind = "insert_meal" -> InsertMealUpdater(o, ob)
      [] o.kind = "update_meal" -> UpdateMealUpdater(o, ob)
      [] o.kind = "insert_topic" -> InsertTopicUpdater(o, ob)
      [] o.kind = "update_topic" -> UpdateTopicUpdater(o, ob)
      [] o.kind = "delete_topic" -> DeleteTopicUpdater(o, ob)
      [] o.kind = "delete_topics" -> DeleteTopicsOfUpdater(o, ob)

\* the patch argument of an update-by-id call
PatchOf(o) ==
    IF o.kind = "update_habito" THEN [name |-> o.name] ELSE [status |-> o.status]

\* Variant of UpdaterRaises with a slip: the fields are not validated.
UpdaterNeverRaises(o) == FALSE

\* the updater raises: raise ValueError("habit_id inválido")
UpdaterRaises(o) == o.kind = "insert" /\ ~o.valid

\* ------------------------------------------------------------------ reads
\* _normalize_task_row: a copy of the stored record with the defaults of
\* the fields it lacks (status "todo", description "", ...); stored task
\* records carry no description unless the caller gave one.
NormalizeTaskRow(r) ==
    [id |-> r.id, tag |-> r.tag,
     status |-> IF r.status = "absent" THEN "todo" ELSE r.status,
     description |-> ""]

\* Variant of ListResult with a slip: a placeholder row for a missing
\* document (as buscar_pessoas returns its default names).
ListResultPlaceholder(o) ==
    IF o.none THEN <<NormalizeTaskRow([id |-> 1, tag |-> 0, status |-> "absent"])>>
    ELSE [k \in 1..Len(o.list) |-> NormalizeTaskRow(o.list[k])]

\* buscar_tasks: [] if not obj, else the normalized rows
ListResult(o) ==
    LET l == OrEmpty(o) IN [k \in 1..Len(l) |-> NormalizeTaskRow(l[k])]

\* ------------------------------------------------------------- the inputs
InsertOps == {[kind |-> "insert", id |-> 0, callerId |-> c, valid |-> v,
               status |-> "absent"] : c \in {0, 1}, v \in BOOLEAN}
             \ {[kind |-> "insert", id |-> 0, callerId |-> 1, valid |-> FALSE,
                  status |-> "absent"]}
UpdateOps == [kind : {"update"}, id : 1..MaxIdArg, callerId : {0},
              valid : {TRUE}, status : {"done"}]
DeleteOps == [kind : {"delete"}, id : 1..MaxIdArg, callerId : {0},
              valid : {TRUE}, status : {"absent"}]
\* max_retries as given by the callers: none, or MaxRetries
RetryArgs == {0, MaxRetries}
Ops == InsertOps \cup UpdateOps \cup DeleteOps

\* inserir_habito({"name": n}), atualizar_habito(id, {"name": n}) and
\* deletar_habito(id)
HabitOps ==
    [kind : {"insert_habito"}, id : {0}, callerId : {0}, valid : {TRUE},
     name : {"agua"}]
    \cup [kind : {"update_habito"}, id : 1..MaxIdArg, callerId : {0},
          valid : {TRUE}, name : {"cha", " cha "}]
    \cup DeleteOps

\* the habits collection when the sessions start: missing, empty, or two
\* habits of which the first was stored without a unit
HabitSeeds == { <<>>, <<LegacyHabit(1, 0, "agua"), Habit(2, 0, "cafe", "ml")>> }

\* deletar_tasks_bulk(ids) for the non-empty sets of ids, with the calls
\* that run beside it
BulkOps ==
    [kind : {"bulk"}, id : {0}, callerId : {0}, valid : {TRUE},
     ids : SUBSET (1..MaxIdArg) \ {{}}]
    \cup {o \in Ops : o.valid /\ o.callerId = 0 /\ o.id <= 1}

\* upsert_habit_check(date_str, patch) with the patches of saude_view
Dates == {"d1", "d2"}
Patches == {[move_done |-> TRUE], [sleep_done |-> TRUE],
            [move_done |-> FALSE, sleep_done |-> TRUE]}
UpsertOps ==
    [kind : {"upsert"}, id : {0}, callerId : {0}, valid : {TRUE},
     date : Dates, patch : Patches]

\* the habit-check collection when the sessions start
CheckSeeds == { <<>>, <<Check(1, "d1")>> }

\* the round trip: two inserts, update(1, {status: done}), delete(2)
Scenario ==
    << [kind |-> "insert", id |-> 0, callerId |-> 0, valid |-> TRUE, status |-> "absent"],
       [kind |-> "insert", id |-> 0, callerId |-> 0, valid |-> TRUE, status |-> "absent"],
       [kind |-> "update", id |-> 1, callerId |-> 0, valid |-> TRUE, status |-> "done"],
       [kind |-> "delete", id |-> 2, callerId |-> 0, valid |-> TRUE, status |-> "absent"] >>

\* collections the path may hold when the sessions start
Seeds == { <<>>, <<Rec(1, 0, "todo"), Rec(2, 0, "todo")>> }

\* ------------------------------------------------------------------ state
VARIABLES
    doc,       \* the store: the JSON array held by the path
    ver,       \* the store: the path's version token (0: None, no such path)
    lastBy,    \* the store: the call whose write made the current content
    ncalls,    \* calls of safe_update_json begun so far
    pc,        \* per session: "idle", "get", "put", "done"
    op,        \* per session: the arguments of the running call
    cid,       \* per session: the number of the running call
    mr,        \* per session: max_retries of the running call
    attempt,   \* per session: the loop variable of safe_update_json
    obj,       \* per session: obj of the running attempt
    sha,       \* per session: sha of the running attempt (0: None)
    new_obj,   \* per session: new_obj of the running attempt
    ret,       \* per session: what the call returned
    clean,     \* per session: every failure of the call so far was a 409
    sha1,      \* per session: the sha fetched by the call's first attempt
    nget,      \* per session: calls of gh_get_file made by the call
    nput,      \* per session: calls of gh_put_file made by the call
    acked,     \* per session: calls of gh_put_file that returned a sha
    landed,    \* per session: writes of the call the store accepted
    maxSeen,   \* history: the largest id the collection ever held (0: none)
    lastInsert,\* history: the id given by the latest accepted insert, the
               \* largest id of the content it replaced and maxSeen before it
    removed,   \* history: calls whose record an accepted delete removed
    lst,       \* per session: what the session's latest list call returned
    script,    \* steps of the round-trip scenario done so far
    ui,        \* per session: st.session_state of the tasks page
    nacts      \* user actions on the tasks page so far (the page's clock)

vars == <<doc, ver, lastBy, ncalls, pc, op, cid, mr, attempt, obj, sha, new_obj, ret,
          clean, sha1, nget, nput, acked, landed, maxSeen, lastInsert, removed,
          lst, script, ui, nacts>>

hist == <<maxSeen, lastInsert, removed>>

\* what the sessions have read and the scenario's position
reads == <<lst, script, ui, nacts>>

\* the tasks page before its first run: tasks not loaded, the flags and the
\* queue as render_tarefas sets them; hPatch, hAdd, hProc, actIns, firstOk
\* record what the latest handlers did
NoUi ==
    [mode |-> "closed", tasks |-> <<>>, busy |-> FALSE, temp |-> 0,
     backup |-> <<>>, pending |-> <<>>, pend |-> <<>>, failures |-> <<>>,
     warned |-> {}, hasLast |-> FALSE, since |-> "none", again |-> FALSE,
     actIns |-> 0, firstOk |-> FALSE, clear |-> FALSE,
     meals |-> <<>>, topics |-> <<>>, before |-> <<>>,
     hPatch |-> [done |-> FALSE, id |-> 0, remoteOk |-> FALSE, returned |-> FALSE],
     hAdd |-> "none",
     hQueued |-> {},
     hProc |-> [done |-> FALSE, recs |-> {}]]

MaxOf(S) == IF S = {} THEN 0 ELSE SeqMax(S)
TagsOf(l) == {l[k].tag : k \in 1..Len(l)}

NoRet   == [ok |-> FALSE, content |-> <<>>, sha |-> 0]
NoOp    == [kind |-> "none", id |-> 0, callerId |-> 0, valid |-> TRUE,
            status |-> "absent"]

\* no list call made yet (n: fetches of the latest list call; ok, res: what
\* it got and returned; sawVer, sawDoc: the store when it fetched; at: the
\* scenario's position)
NoList == [n |-> 0, ok |-> TRUE, res |-> <<>>, sawVer |-> 0, sawDoc |-> <<>>,
           at |-> 0]

\* The path does not exist, or holds one of the seeds.
InitWith(seeds) ==
    /\ \/ doc = <<>> /\ ver = 0
       \/ doc \in seeds /\ ver = 1
    /\ lastBy = 0
    /\ ncalls = 0
    /\ pc = [p \in Sessions |-> "idle"]
    /\ op = [p \in Sessions |-> NoOp]
    /\ cid = [p \in Sessions |-> 0]
    /\ mr = [p \in Sessions |-> 0]
    /\ attempt = [p \in Sessions |-> 0]
    /\ obj = [p \in Sessions |-> NoneObj]
    /\ sha = [p \in Sessions |-> 0]
    /\ new_obj = [p \in Sessions |-> <<>>]
    /\ ret = [p \in Sessions |-> NoRet]
    /\ clean = [p \in Sessions |-> TRUE]
    /\ sha1 = [p \in Sessions |-> 0]
    /\ nget = [p \in Sessions |-> 0]
    /\ nput = [p \in Sessions |-> 0]
    /\ acked = [p \in Sessions |-> 0]
    /\ landed = [p \in Sessions |-> 0]
    /\ maxSeen = MaxOf(IdsOf(doc))
    /\ lastInsert = [id |-> 0, over |-> 0, seen |-> 0]
    /\ removed = {}
    /\ lst = [p \in Sessions |-> NoList]
    /\ script = 0
    /\ ui = [p \in Sessions |-> NoUi]
    /\ nacts = 0

Init == InitWith(Seeds)

\* ---------------------------------------------------------------- actions
\* Variant of LoopEnters with a slip: the body runs once before the test.
LoopEntersAlways(m) == m >= 0

\* for attempt in range(max_retries): the loop is entered when the range
\* is not empty
LoopEnters(m) == m > 0

\* Session p enters safe_update_json(path, updater, max_retries = m) with
\* the updater of arguments o.
Begin(p, o, m) ==
    /\ pc[p] \in {"idle", "done"}
    /\ op' = [op EXCEPT ![p] = o]
    /\ mr' = [mr EXCEPT ![p] = m]
    /\ pc' = [pc EXCEPT ![p] = IF LoopEnters(m) THEN "get" ELSE "done"]
    /\ ncalls' = ncalls + 1
    /\ cid' = [cid EXCEPT ![p] = ncalls + 1]
    /\ attempt' = [attempt EXCEPT ![p] = 0]
    /\ obj' = [obj EXCEPT ![p] = NoneObj]
    /\ sha' = [sha EXCEPT ![p] = 0]
    /\ new_obj' = [new_obj EXCEPT ![p] = <<>>]
    /\ ret' = [ret EXCEPT ![p] = NoRet]
    /\ clean' = [clean EXCEPT ![p] = TRUE]
    /\ sha1' = [sha1 EXCEPT ![p] = 0]
    /\ nget' = [nget EXCEPT ![p] = 0]
    /\ nput' = [nput EXCEPT ![p] = 0]
    /\ acked' = [acked EXCEPT ![p] = 0]
    /\ landed' = [landed EXCEPT ![p] = 0]
    /\ UNCHANGED <<doc, ver, lastBy, hist, lst>>

\* what a caller of safe_update_json that keeps no page state leaves alone
NoPage == UNCHANGED <<script, ui, nacts>>

\* A session calls an insert, an update-by-id or a delete-by-id of the
\* tasks collection.
Call(p) ==
    /\ ncalls < MaxCalls
    /\ \E o \in Ops, m \in RetryArgs : Begin(p, o, m)
    /\ NoPage

\* obj, sha = gh_get_file(path), then new_obj = updater(obj) inside the
\* try block; fetched is what gh_get_file returned.
AfterGet(p, fo, fs) ==
    /\ obj' = [obj EXCEPT ![p] = fo]
    /\ sha' = [sha EXCEPT ![p] = fs]
    /\ sha1' = [sha1 EXCEPT ![p] = IF attempt[p] = 0 THEN fs ELSE @]
    /\ nget' = [nget EXCEPT ![p] = @ + 1]
    /\ IF UpdaterRaises(op[p])
         THEN /\ pc' = [pc EXCEPT ![p] = "done"]
              /\ ret' = [ret EXCEPT ![p] = NoRet]
              /\ UNCHANGED new_obj
         ELSE /\ pc' = [pc EXCEPT ![p] = "put"]
              /\ new_obj' = [new_obj EXCEPT ![p] = Updater(op[p], cid[p], fo)]
              /\ UNCHANGED ret
    /\ UNCHANGED <<doc, ver, lastBy, hist, ncalls, op, cid, mr, attempt, nput, acked, landed,
                   reads>>

\* gh_get_file answers 200 with the document and its sha, or 404.
GetOk(p) ==
    /\ pc[p] = "get"
    /\ IF ver = 0 THEN AfterGet(p, NoneObj, 0)
                  ELSE AfterGet(p, ListObj(doc), ver)
    /\ UNCHANGED clean

\* gh_get_file fails (network error, other status, undecodable body) and
\* returns (None, None) as for a missing path.
GetFail(p) ==
    /\ pc[p] = "get"
    /\ AfterGet(p, NoneObj, 0)
    /\ clean' = [clean EXCEPT ![p] = FALSE]

\* Variant of StoreAccepts: a write that carries no sha replaces whatever
\* the path holds.
StoreAcceptsNoSha(presented, current) == presented = 0 \/ presented = current

\* The store accepts a write when the sha it is given is the sha of the
\* path's current content (no sha for a path that does not exist).
StoreAccepts(presented, current) == presented = current

\* Variant of LoopContinues with a slip: range(max_retries + 1).
LoopContinuesOneMore(a, m) == a + 1 <= m

\* for attempt in range(max_retries): after attempt a failed, the loop goes
\* on when a + 1 is still in the range
LoopContinues(a, m) == a + 1 < m

\* gh_put_file returned None: the attempt failed, sleep and loop.
AttemptFailed(p) ==
    /\ attempt' = [attempt EXCEPT ![p] = @ + 1]
    /\ IF LoopContinues(attempt[p], mr[p])
         THEN pc' = [pc EXCEPT ![p] = "get"] /\ UNCHANGED ret
         ELSE pc' = [pc EXCEPT ![p] = "done"] /\ ret' = [ret EXCEPT ![p] = NoRet]
    /\ nput' = [nput EXCEPT ![p] = @ + 1]
    /\ UNCHANGED <<ncalls, op, cid, mr, obj, sha, new_obj, sha1, nget, acked, reads>>

\* The store replaces the whole content and gives the path a new token.
Landed(p) ==
    /\ doc' = new_obj[p]
    /\ ver' = ver + 1
    /\ lastBy' = cid[p]
    /\ landed' = [landed EXCEPT ![p] = @ + 1]
    /\ maxSeen' = MaxOf(IdsOf(new_obj[p]) \cup {maxSeen})
    /\ lastInsert' = IF op[p].kind = "insert"
                       THEN [id   |-> new_obj[p][Len(new_obj[p])].id,
                             over |-> MaxOf(IdsOf(doc)),
                             seen |-> maxSeen]
                       ELSE lastInsert
    /\ removed' = IF op[p].kind = "delete"
                    THEN removed \cup {doc[k].tag : k \in {j \in 1..Len(doc) : doc[j].id = op[p].id}}
                    ELSE removed

NotLanded == UNCHANGED <<doc, ver, lastBy, landed, hist>>

\* Variant of Returned with a slip: return new_obj, sha.
ReturnedOldSha(nob, s, ns) == [ok |-> TRUE, content |-> nob, sha |-> s]

\* if new_sha: return new_obj, new_sha
Returned(nob, s, ns) == [ok |-> TRUE, content |-> nob, sha |-> ns]

\* The write is accepted and answered 200/201 with the new sha:
\* return new_obj, new_sha
PutOk(p) ==
    /\ pc[p] = "put"
    /\ StoreAccepts(sha[p], ver)
    /\ Landed(p)
    /\ pc' = [pc EXCEPT ![p] = "done"]
    /\ ret' = [ret EXCEPT ![p] = Returned(new_obj[p], sha[p], ver + 1)]
    /\ nput' = [nput EXCEPT ![p] = @ + 1]
    /\ acked' = [acked EXCEPT ![p] = @ + 1]
    /\ UNCHANGED <<ncalls, op, cid, mr, attempt, obj, sha, new_obj, clean, sha1, nget,
                   reads>>

\* The write is accepted by the store but gh_put_file returns None: the
\* answer is lost (requests.put raises after the request was sent) or its
\* body cannot be parsed.
PutLost(p) ==
    /\ pc[p] = "put"
    /\ StoreAccepts(sha[p], ver)
    /\ Landed(p)
    /\ AttemptFailed(p)
    /\ clean' = [clean EXCEPT ![p] = FALSE]

\* The store rejects the write (409): gh_put_file returns None.
PutConflict(p) ==
    /\ pc[p] = "put"
    /\ ~StoreAccepts(sha[p], ver)
    /\ AttemptFailed(p)
    /\ NotLanded
    /\ UNCHANGED clean

\* The write does not reach the store, or is answered with another error
\* status: gh_put_file returns None and the store is unchanged.
PutError(p) ==
    /\ pc[p] = "put"
    /\ AttemptFailed(p)
    /\ clean' = [clean EXCEPT ![p] = FALSE]
    /\ NotLanded

\* buscar_tasks: obj, _ = gh_get_file(path); fo is what gh_get_file
\* returned and good tells whether it had read the path.
ListRec(fo, good) ==
    [n |-> 1, ok |-> good, res |-> ListResult(fo),
     sawVer |-> ver, sawDoc |-> doc, at |-> script]

Listed(p, fo, good) ==
    /\ lst' = [lst EXCEPT ![p] = ListRec(fo, good)]
    /\ UNCHANGED <<doc, ver, lastBy, ncalls, pc, op, cid, mr, attempt, obj, sha,
                   new_obj, ret, clean, sha1, nget, nput, acked, landed, hist, script,
                   ui, nacts>>

\* A session lists the collection and gh_get_file answers 200 or 404.
ListOk(p) ==
    /\ pc[p] \in {"idle", "done"}
    /\ Listed(p, IF ver = 0 THEN NoneObj ELSE ListObj(doc), TRUE)

\* A session lists the collection and gh_get_file fails: it returns
\* (None, None) as for a missing path.
ListFail(p) ==
    /\ pc[p] \in {"idle", "done"}
    /\ Listed(p, NoneObj, FALSE)

Step(p) == GetOk(p) \/ GetFail(p) \/ PutOk(p) \/ PutLost(p) \/ PutConflict(p) \/ PutError(p)

Next == \E p \in Sessions : Call(p) \/ Step(p)

Spec == Init /\ [][Next]_vars

\* Every running call is eventually scheduled (a session's script runs to
\* its end: requests time out after DEFAULT_TIMEOUT, time.sleep returns).
FairSpec == Spec /\ \A p \in Sessions : WF_vars(Step(p))

\* the calls of the sessions that also read: inserir_task(fields),
\* atualizar_task(1, patch), deletar_task(1) with the default max_retries
ReaderOps == {o \in Ops : o.valid /\ o.callerId = 0 /\ o.id <= 1}

ReaderCall(p) ==
    /\ ncalls < MaxCalls
    /\ \E o \in ReaderOps : Begin(p, o, MaxRetries)
    /\ NoPage

\* A session calls inserir_habito, atualizar_habito or deletar_habito.
HabitCall(p) ==
    /\ ncalls < MaxCalls
    /\ \E o \in HabitOps : Begin(p, o, MaxRetries)
    /\ NoPage

HabitInit == InitWith(HabitSeeds)

HabitNext == \E p \in Sessions : HabitCall(p) \/ Step(p)

\* Sessions working on the habits collection.
HabitSpec == HabitInit /\ [][HabitNext]_vars

\* A session calls deletar_tasks_bulk, or one of the single-record calls.
BulkCall(p) ==
    /\ ncalls < MaxCalls
    /\ \E o \in BulkOps : Begin(p, o, MaxRetries)
    /\ NoPage

BulkNext == \E p \in Sessions : BulkCall(p) \/ Step(p)

\* Sessions deleting tasks in bulk.
BulkSpec == Init /\ [][BulkNext]_vars

\* A session calls upsert_habit_check.
UpsertCall(p) ==
    /\ ncalls < MaxCalls
    /\ \E o \in UpsertOps : Begin(p, o, MaxRetries)
    /\ NoPage

CheckInit == InitWith(CheckSeeds)

CheckNext == \E p \in Sessions : UpsertCall(p) \/ Step(p)

\* Sessions ticking today's habit checks.
CheckSpec == CheckInit /\ [][CheckNext]_vars

\* The call that returned last succeeded at its first attempt.
Nominal(p) == pc[p] = "done" /\ ret[p].ok /\ attempt[p] = 0

\* The one session of the round trip makes the scenario's next call, once
\* the call before it has succeeded at its first attempt.
ScriptCall(p) ==
    /\ script < Len(Scenario)
    /\ script > 0 => Nominal(p)
    /\ Begin(p, Scenario[script + 1], MaxRetries)
    /\ script' = script + 1
    /\ UNCHANGED <<ui, nacts>>

RoundTripInit == InitWith({<<>>})

RoundTripNext == ScriptCall(1) \/ Step(1) \/ ListOk(1) \/ ListFail(1)

\* One session alone on an initially empty tasks collection.
RoundTripSpec == RoundTripInit /\ [][RoundTripNext]_vars

\* ------------------------------------------------------- the tasks page
\* What the github_db functions return to the page: None, or a bool.
NoneResult == [isbool |-> FALSE, val |-> FALSE]
BoolResult(b) == [isbool |-> TRUE, val |-> b]

\* return bool(new_sha)
InserirTaskResult(r) == BoolResult(r.ok)
\* atualizar_task and deletar_task have no return statement
AtualizarTaskResult(r) == NoneResult
DeletarTaskResult(r) == NoneResult
\* deletar_tasks_bulk reports whether its transaction was committed
DeletarTasksBulkResult(r) == BoolResult(r.ok)

\* bool(result) if isinstance(result, bool) else True
SafeBool(r) == IF r.isbool THEN r.val ELSE TRUE

\* tmp = dict(payload); tmp["id"] = temp_id; tmp.setdefault("status", "todo");
\* tasks = [tmp] + tasks
PrependLocalTask(tasks, temp_id, title) ==
    <<[id |-> temp_id, tag |-> title, status |-> "todo"]>> \o tasks

\* Variant of RollbackLocalTask with a slip: the filter keeps the record.
RollbackKeeps(tasks, temp_id) == SelectSeq(tasks, LAMBDA t : t.id # -temp_id)

\* [t for t in tasks if int(t.get("id", 0)) != int(temp_id)]
RollbackLocalTask(tasks, temp_id) == SelectSeq(tasks, LAMBDA t : t.id # temp_id)

\* tt = dict(t); tt.update(patch) for the record with that id
ApplyLocalPatch(tasks, id, status) ==
    [k \in 1..Len(tasks) |->
        IF tasks[k].id = id THEN [tasks[k] EXCEPT !.status = status] ELSE tasks[k]]

\* Variant of CanAct with a slip: the test of the temporary id is missing.
CanActAlways(t) == TRUE

\* if tid < 0: return (the card of a temporary record offers no action)
CanAct(t) == t.id >= 0

\* list(dict.fromkeys(pending)): the first occurrence of each id, in order
Dedup(q) ==
    LET keep == {k \in 1..Len(q) : \A j \in 1..(k - 1) : q[j] # q[k]}
    IN  [i \in 1..Cardinality(keep) |->
            q[CHOOSE k \in keep : Cardinality({j \in keep : j <= k}) = i]]

\* temp_id = -int(time.time() * 1000): the clock has advanced since every
\* earlier temporary id of the list was made
TempId(tasks) ==
    -(1 + Cardinality({k \in 1..Len(tasks) : tasks[k].id < 0}))

\* Variant of QuickIn with a slip: the input is not cleared.
QuickInKept(clear) == "txt"

\* st.session_state.get("quick_in") in the script run: the typed text, or
\* the empty default after `del st.session_state["quick_in"]` under
\* _clear_quick
QuickIn(clear) == IF clear THEN "" ELSE "txt"

\* txt == _last_add_text and now_ts - _last_add_ts < 1.5; since tells how
\* long ago _last_add_ts (taken before the insert began) is
Debounced(hasLast, since) == hasLast /\ since = "fast"

\* what gh_get_file gives buscar_tasks: the document, or None when the path
\* is missing or the read fails
Fetched(good) == IF good /\ ver # 0 THEN ListObj(doc) ELSE NoneObj

engine == <<doc, ver, lastBy, ncalls, pc, op, cid, mr, attempt, obj, sha, new_obj,
            ret, clean, sha1, nget, nput, acked, landed, hist>>

PageIdle(p) == ui[p].mode = "idle" /\ pc[p] \in {"idle", "done"}

InsertOp == [kind |-> "insert", id |-> 0, callerId |-> 0, valid |-> TRUE,
             status |-> "absent"]
PatchOp(i) == [kind |-> "update", id |-> i, callerId |-> 0, valid |-> TRUE,
               status |-> "done"]
DeleteOp(i) == [kind |-> "delete", id |-> i, callerId |-> 0, valid |-> TRUE,
                status |-> "absent"]
BulkOp(q) == [kind |-> "bulk", id |-> 0, callerId |-> 0, valid |-> TRUE,
              ids |-> {q[k] : k \in 1..Len(q)}]

\* The first run of the page in a session: the defaults of the session
\* state, with tasks = buscar_tasks().
Open(p) ==
    /\ ui[p].mode = "closed" /\ pc[p] \in {"idle", "done"}
    /\ Cardinality({q \in Sessions : ui[q].mode # "closed"}) < MaxPages
    /\ \E good \in BOOLEAN :
        ui' = [ui EXCEPT ![p].mode = "idle", ![p].tasks = ListResult(Fetched(good))]
    /\ UNCHANGED <<engine, lst, script, nacts>>

\* _sync_if_old / the sync button: tasks = buscar_tasks()
Sync(p) ==
    /\ PageIdle(p) /\ nacts < MaxActs
    /\ \E good \in BOOLEAN :
        ui' = [ui EXCEPT ![p].tasks = ListResult(Fetched(good)), ![p].again = FALSE]
    /\ nacts' = nacts + 1
    /\ UNCHANGED <<engine, lst, script>>

\* A handler of the page enters a function of github_db.
PageBegin(p, o) ==
    /\ ncalls < MaxPageCalls
    /\ Begin(p, o, PageRetries)

\* _add_from_text past its guards: _busy_add = True, the temporary record
\* is prepended and inserir_task(payload) is entered.
StartAdd(p, u) ==
    /\ ui' = [u EXCEPT ![p].mode = "add", ![p].busy = TRUE,
                       ![p].temp = TempId(ui[p].tasks),
                       ![p].tasks = PrependLocalTask(@, TempId(ui[p].tasks), ncalls + 1),
                       ![p].actIns = @ + 1, ![p].again = FALSE]
    /\ PageBegin(p, InsertOp)
    /\ UNCHANGED script

\* The user enters a text: the on_change callback calls _add_from_text.
AddFromText(p) ==
    /\ PageIdle(p) /\ ui[p].pending = <<>> /\ nacts < MaxActs
    /\ ~ui[p].busy
    /\ nacts' = nacts + 1
    /\ StartAdd(p, [ui EXCEPT ![p].actIns = 0, ![p].firstOk = FALSE,
                              ![p].since = "none", ![p].hAdd = "none",
                              ![p].clear = FALSE])

\* The script run is stopped at st.toast, right after the temporary record
\* was prepended (the user acted again): the exception is no Exception, so
\* only the finally clause runs.
AddInterrupted(p) ==
    /\ PageIdle(p) /\ ui[p].pending = <<>> /\ nacts < MaxActs
    /\ ~ui[p].busy
    /\ \A k \in 1..Len(ui[p].tasks) : ui[p].tasks[k].id >= 0
    /\ ui' = [ui EXCEPT ![p].tasks = PrependLocalTask(@, TempId(ui[p].tasks), 0),
                        ![p].busy = FALSE, ![p].again = FALSE,
                        ![p].hAdd = "interrupted"]
    /\ UNCHANGED <<engine, lst, script, nacts>>

\* inserir_task has returned: on success the list is fetched again and the
\* debounce fields are set, on failure the temporary record is rolled back;
\* finally _busy_add = False. dur tells whether 1.5 s have passed since
\* now_ts was taken.
AddReturn(p) ==
    /\ ui[p].mode = "add" /\ pc[p] = "done"
    /\ IF SafeBool(InserirTaskResult(ret[p]))
         THEN \E good \in BOOLEAN, dur \in {"fast", "slow"} :
                /\ ui' = [ui EXCEPT ![p].mode = "idle", ![p].busy = FALSE,
                                    ![p].temp = 0,
                                    ![p].tasks = ListResult(Fetched(good)),
                                    ![p].hasLast = TRUE, ![p].since = dur,
                                    ![p].firstOk = (ui[p].actIns = 1) \/ @,
                                    ![p].again = (ui[p].actIns = 1),
                                    ![p].clear = TRUE,
                                    ![p].hAdd = "saved"]
                /\ UNCHANGED lst
         ELSE /\ ui' = [ui EXCEPT ![p].mode = "idle", ![p].busy = FALSE,
                                  ![p].temp = 0,
                                  ![p].tasks = RollbackLocalTask(@, ui[p].temp),
                                  ![p].again = (ui[p].actIns = 1),
                                  ![p].hAdd = "rolled"]
              /\ UNCHANGED lst
    /\ UNCHANGED <<engine, script, nacts>>

\* inserir_task raises before its request is sent (gh_put_file builds the
\* payload outside its try block): except Exception rolls back.
AddRaised(p) ==
    /\ ui[p].mode = "add" /\ pc[p] = "put"
    /\ pc' = [pc EXCEPT ![p] = "done"]
    /\ ret' = [ret EXCEPT ![p] = NoRet]
    /\ ui' = [ui EXCEPT ![p].mode = "idle", ![p].busy = FALSE, ![p].temp = 0,
                        ![p].tasks = RollbackLocalTask(@, ui[p].temp),
                        ![p].again = (ui[p].actIns = 1),
                        ![p].hAdd = "raised"]
    /\ UNCHANGED <<doc, ver, lastBy, ncalls, op, cid, mr, attempt, obj, sha, new_obj,
                   clean, sha1, nget, nput, acked, landed, hist, lst, script, nacts>>

\* The script run that follows the callback: quick_in is deleted under
\* _clear_quick, then the 'Adicionar' button calls _add_from_text with
\* what quick_in holds.
AddAgain(p) ==
    /\ PageIdle(p) /\ ui[p].again
    /\ IF QuickIn(ui[p].clear) = ""
         THEN /\ ui' = [ui EXCEPT ![p].again = FALSE, ![p].clear = FALSE,
                                  ![p].hAdd = "empty"]
              /\ UNCHANGED <<engine, lst, script>>
         ELSE IF Debounced(ui[p].hasLast, ui[p].since) \/ ui[p].busy
         THEN /\ ui' = [ui EXCEPT ![p].again = FALSE, ![p].clear = FALSE,
                                  ![p].hAdd = "debounced"]
              /\ UNCHANGED <<engine, lst, script>>
         ELSE StartAdd(p, [ui EXCEPT ![p].clear = FALSE])
    /\ UNCHANGED nacts

\* A quick action on the card of record k: _apply_local_patch, then
\* _commit_patch enters atualizar_task.
PatchStart(p) ==
    /\ PageIdle(p) /\ ui[p].pending = <<>> /\ nacts < MaxActs
    /\ \E k \in 1..Len(ui[p].tasks) :
        /\ CanAct(ui[p].tasks[k])
        /\ ui[p].tasks[k].status # "done"
        /\ ui' = [ui EXCEPT ![p].mode = "patch", ![p].backup = ui[p].tasks,
                            ![p].tasks = ApplyLocalPatch(@, ui[p].tasks[k].id, "done"),
                            ![p].again = FALSE,
                            ![p].hPatch = [done |-> FALSE, id |-> ui[p].tasks[k].id,
                                           remoteOk |-> FALSE, returned |-> FALSE]]
        /\ PageBegin(p, PatchOp(ui[p].tasks[k].id))
    /\ nacts' = nacts + 1
    /\ UNCHANGED script

\* atualizar_task has returned: ok = _safe_bool(...); if not ok the backup
\* is restored and _commit_patch returns False.
PatchReturn(p) ==
    /\ ui[p].mode = "patch" /\ pc[p] = "done"
    /\ LET ok == SafeBool(AtualizarTaskResult(ret[p])) IN
       ui' = [ui EXCEPT ![p].mode = "idle",
                        ![p].tasks = IF ok THEN @ ELSE ui[p].backup,
                        ![p].hPatch = [@ EXCEPT !.done = TRUE, !.remoteOk = ret[p].ok,
                                                !.returned = ok]]
    /\ UNCHANGED <<engine, lst, script, nacts>>

\* _queue_delete(tid) from the card of record k
QueueDelete(p) ==
    /\ PageIdle(p) /\ nacts < MaxActs
    /\ \E k \in 1..Len(ui[p].tasks) :
        LET t == ui[p].tasks[k] IN
        /\ CanAct(t)
        /\ ui' = [ui EXCEPT ![p].tasks = SelectSeq(@, LAMBDA x : x.id # t.id),
                            ![p].pending =
                                IF \E j \in 1..Len(@) : @[j] = t.id THEN @ ELSE Append(@, t.id),
                            ![p].again = FALSE,
                            ![p].hQueued = @ \cup {<<t.id, t.tag>>}]
    /\ UNCHANGED <<engine, lst, script, nacts>>

\* render_tarefas finds the queue not empty: it is emptied and
\* deletar_tasks_bulk is entered with its ids.
ProcessStart(p) ==
    /\ PageIdle(p) /\ ui[p].pending # <<>> /\ nacts < MaxActs
    /\ ui' = [ui EXCEPT ![p].mode = "del_bulk", ![p].pend = Dedup(ui[p].pending),
                        ![p].pending = <<>>, ![p].failures = <<>>, ![p].warned = {},
                        ![p].again = FALSE, ![p].hQueued = {},
                        ![p].hProc = [done |-> FALSE, recs |-> ui[p].hQueued]]
    /\ PageBegin(p, BulkOp(Dedup(ui[p].pending)))
    /\ nacts' = nacts + 1
    /\ UNCHANGED script

\* the end of the processing: the warning, then tasks = buscar_tasks()
Reloaded(p, u, good) ==
    /\ ui' = [u EXCEPT ![p].mode = "idle", ![p].tasks = ListResult(Fetched(good)),
                       ![p].hProc = [@ EXCEPT !.done = TRUE]]
    /\ UNCHANGED <<engine, lst, script, nacts>>

\* deletar_tasks_bulk reported success.
BulkDone(p) ==
    /\ ui[p].mode = "del_bulk" /\ pc[p] = "done"
    /\ SafeBool(DeletarTasksBulkResult(ret[p]))
    /\ \E good \in BOOLEAN : Reloaded(p, ui, good)

\* deletar_tasks_bulk reported failure: the fallback enters deletar_task
\* for the first id.
BulkFallback(p) ==
    /\ ui[p].mode = "del_bulk" /\ pc[p] = "done"
    /\ ~SafeBool(DeletarTasksBulkResult(ret[p]))
    /\ ui' = [ui EXCEPT ![p].mode = "del_each", ![p].pend = Tail(@)]
    /\ PageBegin(p, DeleteOp(Head(ui[p].pend)))
    /\ UNCHANGED <<script, nacts>>

\* failures after ok2 = _safe_bool(deletar_task(tid))
Failures(p) ==
    IF SafeBool(DeletarTaskResult(ret[p])) THEN ui[p].failures
    ELSE Append(ui[p].failures, op[p].id)

\* deletar_task has returned and ids are left: the next one.
EachNext(p) ==
    /\ ui[p].mode = "del_each" /\ pc[p] = "done" /\ ui[p].pend # <<>>
    /\ ui' = [ui EXCEPT ![p].pend = Tail(@), ![p].failures = Failures(p)]
    /\ PageBegin(p, DeleteOp(Head(ui[p].pend)))
    /\ UNCHANGED <<script, nacts>>

\* deletar_task has returned for the last id.
EachDone(p) ==
    /\ ui[p].mode = "del_each" /\ pc[p] = "done" /\ ui[p].pend = <<>>
    /\ \E good \in BOOLEAN :
        Reloaded(p, [ui EXCEPT ![p].failures = Failures(p),
                               ![p].warned = {Failures(p)[k] : k \in 1..Len(Failures(p))}],
                 good)

\* While the page is open in a session, a session that has not opened it
\* makes its one call of inserir_task, atualizar_task or deletar_task.
DirectCall(p) ==
    /\ ui[p].mode = "closed" /\ cid[p] = 0
    /\ \E q \in Sessions : ui[q].mode # "closed"
    /\ ncalls < MaxPageCalls
    /\ \E o \in ReaderOps : Begin(p, o, MaxRetries)
    /\ NoPage

PageNext ==
    \E p \in Sessions :
        \/ DirectCall(p)
        \/ Open(p) \/ Sync(p) \/ AddFromText(p) \/ AddInterrupted(p) \/ AddReturn(p)
        \/ AddRaised(p) \/ AddAgain(p) \/ PatchStart(p) \/ PatchReturn(p)
        \/ QueueDelete(p) \/ ProcessStart(p) \/ BulkDone(p) \/ BulkFallback(p)
        \/ EachNext(p) \/ EachDone(p) \/ Step(p)

\* Sessions on the tasks page.
PageSpec == Init /\ [][PageNext]_vars

\* -------------------------------------------------- the meals of the day
Today == "d1"
MealNames == {"cafe"}
Qualities == {"leve", "pesada"}

\* meals.json when the sessions start
MealSeeds == { <<>>, <<Meal(1, "d0", "cafe", "leve")>> }

\* _load_meals_today followed by meals_df_today[meals_df_today["meal"] == meal]:
\* the positions of the cached records of today with that meal
MealRows(meals, m) == {k \in 1..Len(meals) : meals[k].date = Today /\ meals[k].meal = m}

\* row.iloc[0]
FirstOf(S) == CHOOSE x \in S : \A y \in S : x <= y

\* buscar_meals: obj if isinstance(obj, list) else []
BuscarMeals(good) == OrEmpty(Fetched(good))

\* The first run of the health page in a session: meals = buscar_meals().
MealsOpen(p) ==
    /\ ui[p].mode = "closed" /\ pc[p] \in {"idle", "done"}
    /\ \E good \in BOOLEAN :
        ui' = [ui EXCEPT ![p].mode = "idle", ![p].meals = BuscarMeals(good)]
    /\ UNCHANGED <<engine, lst, script, nacts>>

\* _upsert_meal_today(meals_today, hoje, meal, quality): atualizar_meal for
\* the cached record of today's meal when its quality differs, inserir_meal
\* when the cache holds none
UpsertMealCall(p, m, q) ==
    LET rows == MealRows(ui[p].meals, m) IN
    IF rows # {}
      THEN /\ ui[p].meals[FirstOf(rows)].quality # q
           /\ Begin(p, [kind |-> "update_meal", id |-> ui[p].meals[FirstOf(rows)].id,
                        callerId |-> 0, valid |-> TRUE, quality |-> q], MaxRetries)
      ELSE Begin(p, [kind |-> "insert_meal", id |-> 0, callerId |-> 0, valid |-> TRUE,
                     date |-> Today, meal |-> m, quality |-> q], MaxRetries)

\* A quality button of a meal is pressed.
UpsertMealToday(p) ==
    /\ ui[p].mode = "idle" /\ ncalls < MaxCalls
    /\ \E m \in MealNames, q \in Qualities : UpsertMealCall(p, m, q)
    /\ ui' = [ui EXCEPT ![p].mode = "meal"]
    /\ UNCHANGED <<script, nacts>>

\* _upsert_meal_today has returned True: meals = buscar_meals()
MealsReload(p) ==
    /\ ui[p].mode = "meal" /\ pc[p] = "done"
    /\ \E good \in BOOLEAN :
        ui' = [ui EXCEPT ![p].mode = "idle", ![p].meals = BuscarMeals(good)]
    /\ UNCHANGED <<engine, lst, script, nacts>>

MealInit == InitWith(MealSeeds)

MealNext ==
    \E p \in Sessions : MealsOpen(p) \/ UpsertMealToday(p) \/ MealsReload(p) \/ Step(p)

\* Sessions on the health page recording the meals of the day.
MealSpec == MealInit /\ [][MealNext]_vars

\* ------------------------------------------------------- the study page
\* topics.json when the sessions start: two topics of subject 1, one of
\* subject 2
TopicSeeds == { <<Topic(1, 1, 1, 1), Topic(2, 1, 2, 2), Topic(3, 2, 1, 3)>> }

\* buscar_estudos_topics: obj if isinstance(obj, list) else []
BuscarTopics(good) == OrEmpty(Fetched(good))

\* df_sub.sort_values(["order", "title"]): record j comes before record k
ComesBefore(l, j, k) ==
    \/ l[j].order < l[k].order
    \/ l[j].order = l[k].order /\ l[j].title < l[k].title
    \/ l[j].order = l[k].order /\ l[j].title = l[k].title /\ j < k

\* ids = the ids of the active topics of subject sid, sorted
SortedIds(l, sid) ==
    LET S == {k \in 1..Len(l) : l[k].subject_id = sid /\ l[k].active}
    IN  [i \in 1..Cardinality(S) |->
            l[CHOOSE k \in S : Cardinality({j \in S : ComesBefore(l, j, k)}) = i - 1].id]

\* ids.index(topic_id)
IndexOf(ids, i) == FirstOf({k \in 1..Len(ids) : ids[k] = i})

\* df[df["id"] == i].iloc[0]
RowOf(l, i) == l[FirstOf({k \in 1..Len(l) : l[k].id = i})]

TopicOp(kind, i, s, n, oi, on) ==
    [kind |-> kind, id |-> i, callerId |-> 0, valid |-> TRUE, subject_id |-> s,
     order |-> n, title |-> 9, other_id |-> oi, other_order |-> on]

\* A handler of the study page enters a function of github_db.
TopicBegin(p, o) ==
    /\ ncalls < MaxPageCalls
    /\ Begin(p, o, PageRetries)
    /\ UNCHANGED <<script, nacts>>

\* The first run of the study page in a session:
\* est_topics = buscar_estudos_topics().
TopicsOpen(p) ==
    /\ ui[p].mode = "closed" /\ pc[p] \in {"idle", "done"}
    /\ \E good \in BOOLEAN :
        ui' = [ui EXCEPT ![p].mode = "idle", ![p].topics = BuscarTopics(good)]
    /\ UNCHANGED <<engine, lst, script, nacts>>

\* _move_topic(df_t, tid, direction) up to its first update:
\* atualizar_estudos_topic(topic_id, {"order": other_order})
MoveTopic(p) ==
    /\ ui[p].mode = "idle" /\ pc[p] \in {"idle", "done"}
    /\ \E k \in 1..Len(ui[p].topics), direction \in {-1, 1} :
        LET l       == ui[p].topics
            row     == RowOf(l, l[k].id)
            ids     == SortedIds(l, row.subject_id)
            new_idx == IndexOf(ids, row.id) + direction
        IN  /\ new_idx \in 1..Len(ids)
            /\ TopicBegin(p, TopicOp("update_topic", row.id, row.subject_id,
                                      RowOf(l, ids[new_idx]).order,
                                      ids[new_idx], row.order))
    /\ ui' = [ui EXCEPT ![p].mode = "move1", ![p].before = doc]

\* the second update of _move_topic:
\* atualizar_estudos_topic(other_id, {"order": order})
MoveSecond(p) ==
    /\ ui[p].mode = "move1" /\ pc[p] = "done"
    /\ TopicBegin(p, TopicOp("update_topic", op[p].other_id, op[p].subject_id,
                              op[p].other_order, op[p].id, op[p].order))
    /\ ui' = [ui EXCEPT ![p].mode = "move2"]

\* the confirmed 'Excluir' of a subject: deletar_estudos_subject(sid), from
\* its second transaction on (the first one, on the subjects collection,
\* leaves the topics collection alone and, whatever its outcome, is
\* followed by the second)
DeleteSubject(p) ==
    /\ ui[p].mode = "idle" /\ pc[p] \in {"idle", "done"} /\ ncalls < MaxCalls
    /\ \E s \in {ui[p].topics[k].subject_id : k \in 1..Len(ui[p].topics)} :
        TopicBegin(p, TopicOp("delete_topics", 0, s, 0, 0, 0))
    /\ ui' = [ui EXCEPT ![p].mode = "delsub"]

\* inserir_estudos_topic({"subject_id": s, "title": ...}) or
\* deletar_estudos_topic(tid) from the topics screen
TopicCall(p) ==
    /\ ui[p].mode = "idle" /\ pc[p] \in {"idle", "done"} /\ ncalls < MaxCalls
    /\ \E k \in 1..Len(ui[p].topics) :
        \/ TopicBegin(p, TopicOp("insert_topic", 0, ui[p].topics[k].subject_id, 0, 0, 0))
        \/ TopicBegin(p, TopicOp("delete_topic", ui[p].topics[k].id,
                                  ui[p].topics[k].subject_id, 0, 0, 0))
    /\ ui' = [ui EXCEPT ![p].mode = "call"]

\* the handler's function has returned: recarregar(), st.rerun()
TopicsReload(p) ==
    /\ ui[p].mode \in {"move2", "delsub", "call"} /\ pc[p] = "done"
    /\ \E good \in BOOLEAN :
        ui' = [ui EXCEPT ![p].mode = "idle", ![p].topics = BuscarTopics(good)]
    /\ UNCHANGED <<engine, lst, script, nacts>>

StudyInit == InitWith(TopicSeeds)

StudyNext ==
    \E p \in Sessions :
        \/ TopicsOpen(p) \/ MoveTopic(p) \/ MoveSecond(p) \/ DeleteSubject(p)
        \/ TopicCall(p) \/ TopicsReload(p) \/ Step(p)

\* Sessions on the study page.
StudySpec == StudyInit /\ [][StudyNext]_vars

\* Sessions that read the tasks collection between their calls.
ListNext == \E p \in Sessions : ReaderCall(p) \/ Step(p) \/ ListOk(p) \/ ListFail(p)

ListSpec == Init /\ [][ListNext]_vars

\* ================================================================ claims
CountTag(l, c) == Cardinality({k \in 1..Len(l) : l[k].tag = c})
Running(p) == pc[p] \in {"get", "put"}
ReturnedOk(p) == pc[p] = "done" /\ ret[p].ok
ReturnedFail(p) == pc[p] = "done" /\ cid[p] # 0 /\ ~ret[p].ok

C2_WriteOnLatest ==
    \A p \in Sessions :
        (pc[p] = "put" /\ ver' # ver /\ lastBy' = cid[p])
            => doc' = Updater(op[p], cid[p], ListObj(doc))

C2_InsertsKept ==
    \A p \in Sessions :
        (ReturnedOk(p) /\ op[p].kind = "insert")
            => (cid[p] \in TagsOf(doc) \/ cid[p] \in removed)

C2_NoClobber == [][C2_WriteOnLatest]_vars /\ []C2_InsertsKept

\* Two sessions wrote the path one after the other, the second after a
\* write of its own was rejected.
C2_Witness ==
    \E p, q \in Sessions :
        /\ p # q /\ landed[p] = 1 /\ landed[q] = 1
        /\ ReturnedOk(p) /\ ReturnedOk(q)
        /\ attempt[q] = 1 /\ clean[q] /\ lastBy = cid[q]

\* C3: two concurrent inserts into the same empty collection, one of whose
\* writes is rejected once with a conflict, both succeed and leave exactly
\* two records with ids 1 and 2: the rejected writer re-fetches, sees the
\* other's record and gives its own the id 2.
TwoInsertsOneConflict(p, q) ==
    /\ p # q /\ ncalls = 2 /\ {cid[p], cid[q]} = {1, 2}
    /\ op[p].kind = "insert" /\ op[p].valid
    /\ op[q].kind = "insert" /\ op[q].valid
    /\ mr[p] >= 2 /\ mr[q] >= 2
    /\ pc[p] = "done" /\ pc[q] = "done"
    /\ clean[p] /\ clean[q]
    /\ attempt[p] = 0 /\ attempt[q] = 1
    /\ 0 \notin TagsOf(doc)

C3_TwoInserts ==
    \A p, q \in Sessions :
        TwoInsertsOneConflict(p, q) =>
            /\ ret[p].ok /\ ret[q].ok
            /\ Len(doc) = 2
            /\ doc[1] = Rec(1, cid[p], "todo")
            /\ doc[2] = Rec(2, cid[q], "todo")

C3_Witness == \E p, q \in Sessions : TwoInsertsOneConflict(p, q)

\* C4 as stated: the id an insert assigns is strictly greater than every id
\* the collection ever held, the ids of deleted records included.
C4_NeverReused ==
    lastInsert.id # 0 => lastInsert.id > lastInsert.seen

\* C4 as amended: the id an accepted insert assigns is strictly greater
\* than every id of the content its write replaced.
C4_AboveReplaced ==
    lastInsert.id # 0 => lastInsert.id > lastInsert.over

\* An accepted insert gave out an id that the collection had held before
\* and that a delete had freed.
C4_Witness ==
    /\ lastInsert.id # 0
    /\ lastInsert.id <= lastInsert.seen
    /\ lastInsert.id > lastInsert.over

\* C5: when the write of the first attempt is rejected with a conflict and
\* the write of the second attempt is accepted, the call returns success,
\* the content it stored and returns is the updater applied to the content
\* fetched by the second attempt (fetched under a later token than the
\* first attempt's), and the token it returns is that of the second write.
SecondAttemptWon(p) ==
    ReturnedOk(p) /\ attempt[p] = 1 /\ clean[p]

C5_RetryOnFresh ==
    \A p \in Sessions :
        SecondAttemptWon(p) =>
            /\ sha[p] > sha1[p]
            /\ ret[p].content = Updater(op[p], cid[p], obj[p])
            /\ ret[p].sha = sha[p] + 1
            /\ landed[p] = 1
            /\ lastBy = cid[p] => (doc = ret[p].content /\ ver = ret[p].sha)

\* The second attempt won and what it stored differs from what the updater
\* makes of the content the path held at the first attempt.
C5_Witness ==
    \E p \in Sessions :
        /\ SecondAttemptWon(p) /\ lastBy = cid[p]
        /\ op[p].kind = "insert" /\ sha1[p] = 0
        /\ doc # Updater(op[p], cid[p], NoneObj)

\* C6: after max_retries writes of a call were rejected with a conflict,
\* the call has returned failure (None, None) and the document holds no
\* change of this call: none of its writes was accepted and the content is
\* that of another writer.
ExhaustedByConflicts(p) ==
    cid[p] # 0 /\ clean[p] /\ attempt[p] = mr[p]

C6_Exhausted ==
    \A p \in Sessions :
        ExhaustedByConflicts(p) =>
            /\ pc[p] = "done" /\ ret[p] = NoRet
            /\ nput[p] = mr[p]
            /\ landed[p] = 0 /\ lastBy # cid[p]
            /\ cid[p] \notin TagsOf(doc)

\* A call with max_retries >= 2 gave up after that many conflicts.
C6_Witness ==
    \E p \in Sessions :
        ExhaustedByConflicts(p) /\ mr[p] >= 2 /\ op[p].kind = "insert"

\* C7: every call of safe_update_json terminates after at most max_retries
\* attempts, each one fetch followed by at most one write; it issues no
\* write after gh_put_file returned a sha to it, and with max_retries = 0
\* it returns failure without a fetch or a write.
C7_Bounded ==
    \A p \in Sessions :
        /\ nget[p] <= mr[p]
        /\ nput[p] <= nget[p] /\ nget[p] <= nput[p] + 1
        /\ (pc[p] = "put") <=> (nget[p] = nput[p] + 1 /\ Running(p))
        /\ acked[p] <= 1
        /\ acked[p] = 1 => (pc[p] = "done" /\ ret[p].ok)
        /\ (cid[p] # 0 /\ mr[p] = 0) =>
              (pc[p] = "done" /\ ret[p] = NoRet /\ nget[p] = 0 /\ nput[p] = 0)

C8_InsertOnce ==
    \A p \in Sessions :
        op[p].kind = "insert" => CountTag(doc, cid[p]) <= 1

\* C9: the update-by-id and delete-by-id updaters are idempotent: applied
\* to their own result they change nothing, on the stored content and on
\* every small content (duplicate ids included; that part speaks of the
\* operators alone and is evaluated in the initial states), so the retry of
\* a write that landed and was reported as failed, fetching what that write
\* stored, stores it again.
SmallRecs == {Rec(i, 0, s) : i \in 1..MaxIdArg, s \in {"todo", "done"}}
SmallContents ==
    {<<>>} \cup {<<r>> : r \in SmallRecs} \cup {<<r, t>> : r \in SmallRecs, t \in SmallRecs}

Idempotent(o, l) ==
    Updater(o, 0, ListObj(Updater(o, 0, ListObj(l)))) = Updater(o, 0, ListObj(l))

C10_FailedAtMostOnce ==
    \A p \in Sessions :
        (ReturnedFail(p) /\ op[p].kind = "insert") => CountTag(doc, cid[p]) <= 1

\* C11: when the updater rejects the caller's input (it raises), the call
\* returns failure after its first fetch: it issues no write, makes no
\* further attempt, and the document and its version token are as the
\* fetch found them.
Rejected(p) == cid[p] # 0 /\ op[p].kind = "insert" /\ ~op[p].valid

C11_NoWrite ==
    \A p \in Sessions :
        Rejected(p) =>
            /\ pc[p] # "put" /\ nput[p] = 0 /\ landed[p] = 0
            /\ attempt[p] = 0 /\ nget[p] <= 1
            /\ nget[p] = 1 => (pc[p] = "done" /\ ret[p] = NoRet)
            /\ lastBy # cid[p] /\ cid[p] \notin TagsOf(doc)

C11_StoreUntouched ==
    \A p \in Sessions :
        (Rejected(p) /\ nget'[p] # nget[p]) => (doc' = doc /\ ver' = ver)

C12_TrueIffCommitted ==
    \A p \in Sessions :
        (pc[p] = "done" /\ cid[p] # 0 /\ op[p].kind = "insert") =>
            /\ ~ret[p].ok => CountTag(doc, cid[p]) = 0
            /\ (ret[p].ok /\ cid[p] \notin removed) => CountTag(doc, cid[p]) = 1

\* C13: a list call never reports an existing non-empty collection as
\* empty: gh_get_file tells a missing path from a failed read, so an empty
\* list result means the path held no record when it was fetched.
C13_EmptyMeansEmpty ==
    \A p \in Sessions :
        (lst[p].n = 1 /\ lst[p].res = <<>>) => lst[p].sawDoc = <<>>

\* C14: the accepted write of an update-by-id changes only the record with
\* the given id: the number and order of records are as before, every
\* record with another id is unchanged, and the matched record is its old
\* value shallow-merged with the patch (so nothing changes when no record
\* has that id).
ShallowMerge(r, patch) ==
    [f \in DOMAIN r \cup DOMAIN patch |->
        IF f \in DOMAIN patch THEN patch[f] ELSE r[f]]

Writes(p) == pc[p] = "put" /\ ver' # ver /\ lastBy' = cid[p]

C14_Frame ==
    \A p \in Sessions :
        (Writes(p) /\ op[p].kind \in {"update", "update_habito"}) =>
            /\ Len(doc') = Len(doc)
            /\ \A k \in 1..Len(doc) :
                  doc'[k] = IF doc[k].id = op[p].id
                              THEN ShallowMerge(doc[k], PatchOf(op[p]))
                              ELSE doc[k]

C14_UpdateOne == [][C14_Frame]_vars

\* C15: the accepted write of a delete-by-id removes exactly one record
\* when a record with that id is stored (one record fewer, the others and
\* their order as they were) and stores the content unchanged when none is.
C15_Frame ==
    \A p \in Sessions :
        (pc[p] = "put" /\ op[p].kind = "delete" /\ ver' # ver /\ lastBy' = cid[p]) =>
            LET hits == {k \in 1..Len(doc) : doc[k].id = op[p].id} IN
            IF hits = {}
              THEN doc' = doc
              ELSE \E k \in hits :
                      /\ hits = {k}
                      /\ Len(doc') = Len(doc) - 1
                      /\ doc' = SubSeq(doc, 1, k - 1) \o SubSeq(doc, k + 1, Len(doc))

C15_DeleteOne == [][C15_Frame]_vars

\* A delete returned success, its write removed a record of another call
\* and left a record in the collection.
C15_Witness ==
    \E p \in Sessions :
        /\ ReturnedOk(p) /\ op[p].kind = "delete" /\ lastBy = cid[p]
        /\ removed # {} /\ Len(doc) >= 1

\* C16: a bulk delete removes every record whose id is in the given set in
\* one write: each accepted write of it stores the replaced content without
\* any of those records (so no content with only some of them removed is
\* ever stored), and a call that met no conflict and no failure has issued
\* exactly one write, whatever the number of ids.
C16_AllAtOnce ==
    \A p \in Sessions :
        (Writes(p) /\ op[p].kind = "bulk") =>
            /\ doc' = SelectSeq(doc, LAMBDA r : r.id \notin op[p].ids)
            /\ IdsOf(doc') \cap op[p].ids = {}

C16_OneWrite ==
    \A p \in Sessions :
        (op[p].kind = "bulk" /\ pc[p] = "done" /\ clean[p] /\ attempt[p] = 0) =>
            (ret[p].ok /\ nput[p] = 1 /\ landed[p] = 1)

C17_NoWrite ==
    \A p \in Sessions :
        lst'[p] # lst[p] =>
            /\ lst'[p].n = 1
            /\ doc' = doc /\ ver' = ver /\ lastBy' = lastBy
            /\ nput' = nput /\ landed' = landed

C17_EmptyWhenMissing ==
    \A p \in Sessions :
        (lst[p].n = 1 /\ lst[p].ok /\ lst[p].sawVer = 0) => lst[p].res = <<>>

PatchedFields(p) ==
    IF op[p].kind \in {"update", "update_habito"} THEN DOMAIN PatchOf(op[p]) ELSE {}

C18_Frame ==
    \A p \in Sessions :
        Writes(p) =>
            \A k \in 1..Len(doc), j \in 1..Len(doc') :
                (doc[k].id = doc'[j].id /\ doc[k].tag = doc'[j].tag) =>
                    (DOMAIN doc'[j] \ DOMAIN doc[k]) \subseteq PatchedFields(p)

C18_NoWriteBack == [][C18_Frame]_vars

\* C19: one session alone on an initially empty tasks collection: after
\* insert, list returns one record with id 1, the title and the defaults;
\* the second insert gets id 2; update(1, {status: done}) sets record 1 to
\* done and leaves record 2 as it was; after delete(2), list returns only
\* record 1.
After(n) == script > n \/ (script = n /\ Nominal(1))
ListedAfter(n) == lst[1].n = 1 /\ lst[1].ok /\ lst[1].at = n /\ After(n)

C19_RoundTrip ==
    /\ (script = 1 /\ Nominal(1)) => doc = <<Rec(1, 1, "todo")>>
    /\ ListedAfter(1) =>
          lst[1].res = <<[id |-> 1, tag |-> 1, status |-> "todo", description |-> ""]>>
    /\ (script = 2 /\ Nominal(1)) => doc = <<Rec(1, 1, "todo"), Rec(2, 2, "todo")>>
    /\ (script = 3 /\ Nominal(1)) => doc = <<Rec(1, 1, "done"), Rec(2, 2, "todo")>>
    /\ (script = 4 /\ Nominal(1)) => doc = <<Rec(1, 1, "done")>>
    /\ ListedAfter(4) =>
          lst[1].res = <<[id |-> 1, tag |-> 1, status |-> "done", description |-> ""]>>

\* The scenario ran to its end and the session has listed the collection.
C19_Witness == ListedAfter(4) /\ script = 4 /\ ver >= 4

\* C20: the habit-check collection never holds two records with one date;
\* every accepted upsert merges its patch into the date's record (a new
\* record with the defaults when there was none) and leaves the others as
\* they were; so the record of a date carries the patch of every call that
\* returned success, until a later write for that date names the same key.
C20_OnePerDate ==
    \A i, j \in 1..Len(doc) : i # j => doc[i].date # doc[j].date

C20_Merge ==
    \A p \in Sessions :
        (Writes(p) /\ op[p].kind = "upsert") =>
            LET hits == {k \in 1..Len(doc) : doc[k].date = op[p].date} IN
            IF hits = {}
              THEN /\ Len(doc') = Len(doc) + 1
                   /\ \A k \in 1..Len(doc) : doc'[k] = doc[k]
                   /\ doc'[Len(doc')].date = op[p].date
                   /\ \A f \in {"water_done", "move_done", "sleep_done"} :
                         doc'[Len(doc')][f] =
                            IF f \in DOMAIN op[p].patch THEN op[p].patch[f] ELSE FALSE
              ELSE /\ Len(doc') = Len(doc)
                   /\ \A k \in 1..Len(doc) :
                         IF k \in hits
                           THEN /\ doc'[k].id = doc[k].id /\ doc'[k].date = doc[k].date
                                /\ \A f \in {"water_done", "move_done", "sleep_done"} :
                                      doc'[k][f] = IF f \in DOMAIN op[p].patch
                                                     THEN op[p].patch[f] ELSE doc[k][f]
                           ELSE doc'[k] = doc[k]

C20_Kept ==
    \A p \in Sessions :
        (ReturnedOk(p) /\ op[p].kind = "upsert") =>
            \E k \in 1..Len(doc) :
                /\ doc[k].date = op[p].date
                /\ lastBy = cid[p] =>
                      \A f \in DOMAIN op[p].patch : doc[k][f] = op[p].patch[f]

C20_KeptByOthers ==
    \A p \in Sessions :
        (Writes(p) /\ op[p].kind = "upsert") =>
            \A k \in 1..Len(doc) :
                \A f \in {"water_done", "move_done", "sleep_done"} :
                    (doc[k].date # op[p].date \/ f \notin DOMAIN op[p].patch)
                        => doc'[k][f] = doc[k][f]

C20_UpsertPerDate ==
    /\ []C20_OnePerDate /\ []C20_Kept
    /\ [][C20_Merge]_vars /\ [][C20_KeptByOthers]_vars

\* Two upserts for one date raced on a collection without that date, one
\* was rejected once, and the date's record carries both patches.
C20_Witness ==
    \E p, q \in Sessions :
        /\ p # q /\ ReturnedOk(p) /\ ReturnedOk(q)
        /\ op[p].date = "d2" /\ op[q].date = "d2"
        /\ op[p].patch = [move_done |-> TRUE] /\ op[q].patch = [sleep_done |-> TRUE]
        /\ sha1[p] = sha1[q] /\ attempt[q] = 1 /\ clean[q]
        /\ \E k \in 1..Len(doc) :
              doc[k].date = "d2" /\ doc[k].move_done /\ doc[k].sleep_done

\* C25: a failed read never lets an existing document be overwritten with
\* content computed from the empty collection: a write that carries no sha
\* is not accepted for a path that exists, and every write accepted for an
\* existing path was computed from the content it replaces.
C25_Frame ==
    \A p \in Sessions :
        pc[p] = "put" =>
            /\ (sha[p] = 0 /\ ver > 0) => ~Writes(p)
            /\ (Writes(p) /\ ver > 0) =>
                  (sha[p] = ver /\ obj[p] = ListObj(doc) /\ new_obj[p] = doc')

C25_NoBlindOverwrite == [][C25_Frame]_vars

\* The fetch of a call failed on a seeded path nobody has written, its
\* write carried no sha and was refused, and the records are still there.
C25_Witness ==
    \E p \in Sessions :
        /\ ver = 1 /\ lastBy = 0 /\ doc # <<>>
        /\ nget[p] >= 1 /\ sha[p] = 0 /\ obj[p] = NoneObj
        /\ nput[p] = nget[p] /\ landed[p] = 0

\* C30 as stated: an update-by-id or delete-by-id for an id the collection
\* does not hold issues no accepted write: it leaves the version token as
\* it is and does not create the document.
NoOpCall(p) ==
    op[p].kind \in {"update", "delete"} /\ op[p].id \notin IdsOf(doc)

C30_NoWriteFrame ==
    \A p \in Sessions : (pc[p] = "put" /\ NoOpCall(p)) => ~Writes(p)

C30_NoWrite == [][C30_NoWriteFrame]_vars

\* C30 as amended: such a call leaves the content unchanged, but its
\* attempt still ends in a write, and the accepted write gives the path a
\* new version token (creating the document, holding the empty array, when
\* the path did not exist).
C30_SameContentFrame ==
    \A p \in Sessions :
        (Writes(p) /\ NoOpCall(p)) =>
            /\ doc' = doc /\ ver' = ver + 1
            /\ ver = 0 => doc' = <<>>

C30_AlwaysWrites ==
    \A p \in Sessions :
        (ReturnedOk(p) /\ op[p].kind \in {"update", "delete"}) =>
            (nput[p] = attempt[p] + 1 /\ landed[p] >= 1)

C30_NoOpStillWrites == [][C30_SameContentFrame]_vars /\ []C30_AlwaysWrites

\* An update or delete of an absent id created the missing document, and
\* the write of another session that had found the path missing was
\* rejected for it.
C30_Witness ==
    \E p, q \in Sessions :
        /\ p # q /\ ReturnedOk(p) /\ op[p].kind \in {"update", "delete"}
        /\ sha1[p] = 0 /\ attempt[p] = 0 /\ clean[p] /\ doc = <<>> /\ ver = 1
        /\ lastBy = cid[p]
        /\ sha1[q] = 0 /\ nget[q] = 1 /\ attempt[q] = 1 /\ clean[q] /\ landed[q] = 0

\* ------------------------------------------------------------ tasks page
\* the remote document holds record i with the status of the quick action
RemotePatched(i) == \E k \in 1..Len(doc) : doc[k].id = i /\ doc[k].status = "done"

\* C21: when the remote update of a quick action failed (atualizar_task
\* reported no commit and the remote document does not hold the patch),
\* _commit_patch restores the local list to the backup taken before the
\* patch and returns False.
C21_RestoredOnFailure ==
    [][\A p \in Sessions :
        (/\ ui[p].mode = "patch" /\ ui'[p].mode = "idle"
         /\ ~ret[p].ok /\ ~RemotePatched(op[p].id))
            => /\ ui'[p].tasks = ui[p].backup
               /\ ~ui'[p].hPatch.returned]_vars

\* the records of a list whose id is negative
Temps(tasks) == {k \in 1..Len(tasks) : tasks[k].id < 0}

\* what buscar_tasks can return in the current state
FetchResults == {ListResult(Fetched(good)) : good \in BOOLEAN}

C23_OneInsert ==
    \A p \in Sessions : ui[p].firstOk => ui[p].actIns = 1

\* C23 witness: the first insert took longer than the debounce window and
\* the second invocation has run.
C23_Witness ==
    \E p \in Sessions :
        /\ ui[p].firstOk /\ ui[p].since = "slow"
        /\ ~ui[p].again /\ ui[p].hAdd = "empty"

\* the remote collection holds the record that was queued as r = <<id, tag>>
RemoteHolds(r) == \E k \in 1..Len(doc) : doc[k].id = r[1] /\ doc[k].tag = r[2]

\* C24: when the processing of _pending_deletes ends, every record that
\* was queued is absent from the remote collection or its id is in the
\* failures warning, the queue is empty and the local list is the one
\* buscar_tasks returned.
C24_DeletedOrReported ==
    [][\A p \in Sessions :
        (~ui[p].hProc.done /\ ui'[p].hProc.done)
            => /\ \A r \in ui'[p].hProc.recs : RemoteHolds(r) => r[1] \in ui'[p].warned
               /\ ui'[p].pending = <<>>
               /\ ui'[p].tasks \in FetchResults]_vars

\* C29: the remote collection and every document a call is about to write
\* hold only ids >= 1, and no update, delete or bulk delete is issued, and
\* no deletion queued, for a negative id.
C29_NoTempIdRemote ==
    /\ \A k \in 1..Len(doc) : doc[k].id >= 1
    /\ \A p \in Sessions :
        /\ \A k \in 1..Len(new_obj[p]) : new_obj[p][k].id >= 1
        /\ op[p].kind \in {"update", "delete"} => op[p].id >= 1
        /\ op[p].kind = "bulk" => \A i \in op[p].ids : i >= 1
        /\ \A k \in 1..Len(ui[p].pending) : ui[p].pending[k] >= 1

\* C29 witness: the local list holds a temporary record while the session
\* runs a quick action and has written to the store.
C29_Witness ==
    \E p \in Sessions :
        /\ Temps(ui[p].tasks) # {}
        /\ ui[p].hPatch.done /\ ui[p].hPatch.remoteOk
        /\ \E k \in 1..Len(doc) : doc[k].status = "done"

\* ------------------------------------------------------------ health page
\* C28: the meals collection never holds two records with the same date
\* and meal, for any interleaving of _upsert_meal_today calls of
\* concurrent sessions.
C28_OnePerDateMeal ==
    \A j, k \in 1..Len(doc) :
        (doc[j].date = doc[k].date /\ doc[j].meal = doc[k].meal) => j = k

\* ------------------------------------------------------------- study page
\* C26: once deletar_estudos_subject(s) has returned, the topics
\* collection holds no record with subject_id s, whatever the interleaving
\* with sessions inserting topics and whatever retries were exhausted.
C26_NoTopicsOfDeleted ==
    \A p \in Sessions :
        (op[p].kind = "delete_topics" /\ pc[p] = "done")
            => \A k \in 1..Len(doc) : doc[k].subject_id # op[p].subject_id

\* the order values of the topics of subject s in l, with their multiplicity
OrdersOf(l, s) ==
    LET S == {k \in 1..Len(l) : l[k].subject_id = s}
    IN  [n \in {l[k].order : k \in S} |-> Cardinality({k \in S : l[k].order = n})]

\* C27: when _move_topic has returned, the order values of the subject's
\* topics in the remote collection are the same multiset as before the
\* call and the two topics have exchanged their order values.
C27_Swapped ==
    [][\A p \in Sessions :
        (ui[p].mode = "move2" /\ pc[p] = "put" /\ pc'[p] = "done")
            => /\ OrdersOf(doc', op[p].subject_id)
                    = OrdersOf(ui[p].before, op[p].subject_id)
               /\ \E j, k \in 1..Len(doc') :
                    /\ doc'[j].id = op[p].id /\ doc'[j].order = op[p].order
                    /\ doc'[k].id = op[p].other_id
                    /\ doc'[k].order = op[p].other_order]_vars
====
